---- MODULE Spec2Model ----
(***************************************************************************)
(* Dual-mode persistence and synchronisation layer of ops-status           *)
(* (src/app/page.tsx, component App and its SettingsDialog).               *)
(*                                                                         *)
(* Conventions of the model                                                *)
(*  - One action is one event handler run to completion on the single UI   *)
(*    thread, followed by the React re-render it causes and the effects    *)
(*    of that render (persist effect, cloud sync effect and its cleanup).  *)
(*  - Record ids are integers: 1..3 are the sample ids w1..w3 / v1..v3,    *)
(*    11 is a record an earlier session stored, 20+n is the n-th           *)
(*    crypto.randomUUID() of this session, 100+n is a document id issued   *)
(*    by the server under orgs/default, 200+n one issued under orgs/acme.  *)
(*    Ids are globally unique, so an id tells where a record was born.     *)
(*  - Names are integers standing for strings in orderBy("name") order.    *)
(*  - lastUpdate is a reading of the clock `now`.                          *)
(***************************************************************************)
EXTENDS Integers, Sequences, FiniteSets, TLC

\* ---- bounds of the exploration ----
MaxOps == 1      \* gateway calls (create/update/delete) explored per run
MaxTons == 40    \* tons entered for a warehouse: 0..MaxTons

\* ---- values ----
NoUser == "none"
Users == {"u1"}
NoDb == "nodb"
TheDb == "db"
NoAuth == "noauth"
TheAuth == "auth"
DefaultOrg == "default"
Namespaces == {"default", "acme"}
OrgInputs == {"acme"}
Names == {4}
FailingKinds == {"W"}      \* the listeners the backend is seen to end with an error

\* ---- Types (WarehouseT, VesselT) ----
WarehouseT(id, name, lastUpdate) == [id |-> id, name |-> name, lastUpdate |-> lastUpdate]
VesselT(id, name) == [id |-> id, name |-> name]

\* ---- Demo sample data: 3 warehouses, 3 vessels, stamped at module load ----
SAMPLE_DATA ==
  [warehouses |-> << WarehouseT(1, 2, 0), WarehouseT(2, 3, 0), WarehouseT(3, 1, 0) >>,
   vessels    |-> << VesselT(1, 1), VesselT(2, 2), VesselT(3, 3) >>]

\* ---- ids ----
randomUUID(n) == 20 + n
NsBase(ns) == IF ns = "acme" THEN 200 ELSE 100
ServerId(ns, n) == NsBase(ns) + 10 + n
\* where a record with this id was created
Origin(id) == IF id < 100 THEN "local" ELSE IF id < 200 THEN "default" ELSE "acme"

\* ---- localStorage items and JSON ----
NullItem == [kind |-> "null"]                      \* getItem(...) === null
Garbage == [kind |-> "garbage"]                    \* a string JSON.parse rejects
JSONstringify(v) == [kind |-> "json", val |-> v]
ParseThrows(item) == item.kind # "json"
JSONparse(item) == item.val
\* obj.key, undefined when the key is absent
HasKey(obj, k) == k \in DOMAIN obj

\* ---- Config helpers ----
OrDefault(s) == IF s = "" THEN DefaultOrg ELSE s
\* loadFirebaseConfig(): injected global first, then the persisted copy, else null
NoCfg == [present |-> FALSE, orgKey |-> ""]
loadFirebaseConfig(g, raw) ==
  IF g.present THEN [present |-> TRUE, orgKey |-> OrDefault(g.orgKey)]
  ELSE IF raw.kind = "null" THEN NoCfg
  ELSE IF ParseThrows(raw) THEN NoCfg
  ELSE [present |-> TRUE, orgKey |-> JSONparse(raw).orgKey]
saveFirebaseConfig(org) == JSONstringify([orgKey |-> org])
clearFirebaseConfig == NullItem
\* ensureFirebase(): null without a configuration, else the (single) app's handles
ensureFirebase(g, raw) == loadFirebaseConfig(g, raw).present

\* ---- Number: IEEE-754 binary64 arithmetic on non-negative values ----
\* A positive double is [m |-> << a, b, c >>, e |-> e]: its 53-bit significand
\* is a * 2^36 + b * 2^18 + c with 2^16 <= a < 2^17 and 0 <= b, c < 2^18, and
\* its value is significand * 2^(e - 52). The operators are exact for integer
\* operands 0 <= u < 2^13, 1 <= c < 2^13 and factors k < 2^7.
MantissaBits == 53
RECURSIVE Pow2(_)
Pow2(k) == IF k = 0 THEN 1 ELSE 2 * Pow2(k - 1)
Limb == Pow2(18)
TopMin == Pow2(MantissaBits - 1 - 36)
Zero64 == [m |-> << 0, 0, 0 >>, e |-> 0]
\* the next double above [m, e]
Succ64(m, e) ==
  IF m[3] + 1 < Limb THEN [m |-> << m[1], m[2], m[3] + 1 >>, e |-> e]
  ELSE IF m[2] + 1 < Limb THEN [m |-> << m[1], m[2] + 1, 0 >>, e |-> e]
  ELSE IF m[1] + 1 < 2 * TopMin THEN [m |-> << m[1] + 1, 0, 0 >>, e |-> e]
  ELSE [m |-> << TopMin, 0, 0 >>, e |-> e + 1]
\* round to nearest, ties to even: m holds the first 53 digits of the exact
\* result, guard is its 54th digit, sticky tells of a nonzero digit beyond
RoundTiesToEven(m, guard, sticky, e) ==
  IF guard /\ (sticky \/ m[3] % 2 = 1) THEN Succ64(m, e) ELSE [m |-> m, e |-> e]
\* floor(log2(u / c)) for u, c >= 1
RECURSIVE Exponent(_, _)
Exponent(u, c) ==
  IF u >= 2 * c THEN 1 + Exponent(u, 2 * c)
  ELSE IF u < c THEN Exponent(2 * u, c) - 1
  ELSE 0
\* long division, 18 digits at a time: quotient digits and remainder of r * 2^18 / c
QuoLimb(r, c) == (r * Limb) \div c
RemLimb(r, c) == (r * Limb) % c
\* n / c lies in [2^16, 2^17): its integer part is the first limb
DivideScaled(n, c, e) ==
  RoundTiesToEven(<< n \div c, QuoLimb(n % c, c), QuoLimb(RemLimb(n % c, c), c) >>,
                  2 * RemLimb(RemLimb(n % c, c), c) >= c,
                  (2 * RemLimb(RemLimb(n % c, c), c)) % c # 0,
                  e)
\* u * 2^(16 - e) / c, with the divisor scaled instead when e > 16
DivideAt(u, c, e) ==
  IF e <= 16 THEN DivideScaled(u * Pow2(16 - e), c, e)
  ELSE DivideScaled(u, c * Pow2(e - 16), e)
\* the double nearest to u / c (the `/` operator)
Divide64(u, c) == IF u = 0 THEN Zero64 ELSE DivideAt(u, c, Exponent(u, c))
\* the limbs of m * k, the first one unbounded
TimesLimbs(m, k) ==
  << (m[1] * k) + (((m[2] * k) + ((m[3] * k) \div Limb)) \div Limb),
     ((m[2] * k) + ((m[3] * k) \div Limb)) % Limb,
     (m[3] * k) % Limb >>
\* how many digits the first limb has beyond 17
RECURSIVE Excess(_)
Excess(top) == IF top < 2 * TopMin THEN 0 ELSE 1 + Excess(top \div 2)
\* drop the last s digits of the product p and round
ShiftRound(p, s, e) ==
  IF s = 0 THEN [m |-> p, e |-> e]
  ELSE RoundTiesToEven(
         << p[1] \div Pow2(s),
            ((p[1] % Pow2(s)) * Pow2(18 - s)) + (p[2] \div Pow2(s)),
            ((p[2] % Pow2(s)) * Pow2(18 - s)) + (p[3] \div Pow2(s)) >>,
         p[3] % Pow2(s) >= Pow2(s - 1),
         p[3] % Pow2(s - 1) # 0,
         e + s)
\* the double nearest to x * k for an integer k >= 1 (the `*` operator)
Times64(x, k) ==
  IF x.m[1] = 0 THEN Zero64
  ELSE ShiftRound(TimesLimbs(x.m, k), Excess(TimesLimbs(x.m, k)[1]), x.e)
\* Math.round: the integer nearest to x, ties towards +Infinity, for x < 2^31
MathRound(x) ==
  IF x.m[1] = 0 \/ x.e < 0 - 1 THEN 0
  ELSE IF x.e = 0 - 1 THEN 1
  ELSE IF x.e <= 15
    THEN (x.m[1] \div Pow2(16 - x.e)) + ((x.m[1] \div Pow2(15 - x.e)) % 2)
  ELSE IF x.e = 16 THEN x.m[1] + (x.m[2] \div Pow2(17))
  ELSE (x.m[1] * Pow2(x.e - 16)) + (x.m[2] \div Pow2(34 - x.e))
         + ((x.m[2] \div Pow2(33 - x.e)) % 2)
MathMax(a, b) == IF a >= b THEN a ELSE b
MathMin(a, b) == IF a <= b THEN a ELSE b

\* ---- Utilities ----
pct(used, cap) ==
  MathMin(100, MathRound(Times64(Divide64(used, MathMax(cap, 1)), 100)))
\* Progress: the width of the bar, in percent
Progress(value) == MathMin(100, MathMax(0, value))

VARIABLES
  pc,            \* "init" before the first effects ran, "run" after
  mode,          \* Mode: "demo" | "cloud"
  warehouses,    \* in-memory WarehouseT[]
  vessels,       \* in-memory VesselT[]
  user,          \* observed identity
  orgKey,        \* orgKey state
  db,            \* Firestore handle state
  auth,          \* Auth handle state
  lsData,        \* localStorage[LS_KEY]
  lsCfg,         \* localStorage[CFG_KEY]
  gFirebase,     \* globalThis.__FIREBASE
  session,       \* the auth provider's current user
  listening,     \* onAuthStateChanged registered
  reported,      \* last value the listener delivered ("unset" before the first)
  signInPending, \* signInWithPopup awaiting
  remote,        \* remote store: namespace -> [W: set of docs, V: set of docs]
  subs,          \* active onSnapshot subscriptions [kind, ns]
  now,           \* clock
  uuidCtr, docCtr, ops,
  last,          \* the last event and what it returned / did
  entry,         \* the Local state when the regime last became Shared
  gauge          \* a capacity bar: the tons of its warehouse and the width shown

vars == << pc, mode, warehouses, vessels, user, orgKey, db, auth,
           lsData, lsCfg, gFirebase, session, listening, reported, signInPending,
           remote, subs, now, uuidCtr, docCtr, ops, last, entry, gauge >>

\* ---- sequences helpers (Array.prototype.map / filter) ----
\* (mutation: splice(findIndex(...), 1), which removes the last element when
\* the id is not found)
FilterSeqSplice(s, id) ==
  IF id \in {s[i].id : i \in 1..Len(s)} THEN SelectSeq(s, LAMBDA x : x.id # id)
  ELSE SubSeq(s, 1, Len(s) - 1)
RECURSIVE FilterSeq(_, _)
FilterSeq(s, id) ==
  IF s = << >> THEN << >>
  ELSE IF Head(s).id # id THEN << Head(s) >> \o FilterSeq(Tail(s), id)
  ELSE FilterSeq(Tail(s), id)
MapReplace(s, id, r) == [i \in 1..Len(s) |-> IF s[i].id = id THEN r ELSE s[i]]
Ids(s) == {s[i].id : i \in 1..Len(s)}

\* ---- orderBy("name"): by name, ties by document id ----
Before(a, b) == a.name < b.name \/ (a.name = b.name /\ a.id < b.id)
RECURSIVE OrderByName(_)
OrderByName(S) ==
  IF S = {} THEN << >>
  ELSE LET m == CHOOSE x \in S : \A y \in S \ {x} : Before(x, y)
       IN << m >> \o OrderByName(S \ {m})

\* ---- the events recorded in `last` ----
\* ev: the handler; ret: how its promise settled ("undefined" = resolved with no
\* value); retId: the id it handed to its caller (0: none); newId: the id of the
\* document the server inserted (0: none); wrote: localStorage[LS_KEY] was
\* written; ns: the namespace of the remote path or subscription involved
\* cancelled: the subscriptions the step unsubscribed
Ev(name, ret, retId, newId, wrote, ns) ==
  [ev |-> name, ret |-> ret, retId |-> retId, newId |-> newId, wrote |-> wrote, ns |-> ns,
   cancelled |-> {}]
\* `last` describes the gateway call or snapshot delivery that has just happened;
\* after any other event it is Idle, with what the event's effects did
Idle == Ev("idle", "none", 0, 0, FALSE, "")
\* phase "shared": the regime is Shared since the recorded Local state;
\* "back": the regime has returned to Local in the last step; rw: a remote
\* write was issued while Shared
NoEntry == [phase |-> "none", ls |-> NullItem, wh |-> << >>, ve |-> << >>, rw |-> FALSE]

\* ---- initial remote contents (written by other clients earlier) ----
RemoteInit ==
  [ns \in Namespaces |->
     IF ns = "default"
     THEN [W |-> {WarehouseT(101, 1, 0)}, V |-> {VesselT(101, 1)}]
     ELSE [W |-> {WarehouseT(201, 5, 0)}, V |-> {}]]

\* ---- what the page may find when it loads: localStorage[LS_KEY], ----
\* ---- localStorage[CFG_KEY], globalThis.__FIREBASE ----
NoGlobal == [present |-> FALSE, orgKey |-> ""]
StoredFull ==
  JSONstringify([warehouses |-> << WarehouseT(11, 1, 0) >>, vessels |-> << >>])
StoredNoVessels == JSONstringify([warehouses |-> << WarehouseT(11, 1, 0) >>])
Scenarios ==
  { << NullItem, Garbage, NoGlobal >>,
    << Garbage, NullItem, NoGlobal >>,
    << StoredFull, saveFirebaseConfig(""), NoGlobal >>,
    << StoredNoVessels, saveFirebaseConfig("acme"), [present |-> TRUE, orgKey |-> ""] >> }

\* ---- App(): the useState initial values, before any effect ----
InitApp ==
  /\ pc = "init"
  /\ mode = "demo"
  /\ warehouses = << >>
  /\ vessels = << >>
  /\ user = NoUser
  /\ \E sc \in Scenarios : lsData = sc[1] /\ lsCfg = sc[2] /\ gFirebase = sc[3]
  /\ orgKey = OrDefault(loadFirebaseConfig(gFirebase, lsCfg).orgKey)
  /\ db = NoDb
  /\ auth = NoAuth
  /\ session \in {NoUser} \cup Users
  /\ listening = FALSE
  /\ reported = "unset"
  /\ signInPending = FALSE
  /\ remote = RemoteInit
  /\ subs = {}
  /\ now = 0
  /\ uuidCtr = 0
  /\ docCtr = 0
  /\ ops = 0
  /\ last = Idle
  /\ entry = NoEntry
\* no capacity bar is looked at
NoGauge == [usedTons |-> 0, capacityTons |-> 0, value |-> 0, width |-> 0, drawn |-> FALSE]
Init == InitApp /\ gauge = NoGauge

\* ---- Persist demo data locally (effect on [mode, warehouses, vessels]) ----
\* (mutation: the effect writes in either regime)
PersistGuardAnyMode(m) == TRUE
PersistGuard(m) == m = "demo"
PersistPayload(wh, ve) == JSONstringify([warehouses |-> wh, vessels |-> ve])
\* (mutation: `vessels` missing from the dependency list)
PersistEffectMissingDep(m, wh, ve, run) ==
  IF (m # mode \/ wh # warehouses) /\ PersistGuard(m) THEN PersistPayload(wh, ve)
  ELSE lsData
\* run: the effect's dependencies changed in this render
PersistEffect(m, wh, ve, run) ==
  IF run /\ PersistGuard(m) THEN PersistPayload(wh, ve) ELSE lsData
Wrote(m, touched) == (touched \/ m # mode) /\ PersistGuard(m)

\* ---- Cloud realtime sync (effect on [mode, db, orgKey]) ----
\* colRefs(db, ns): the two live queries opened for a namespace
colRefs(ns) == { [kind |-> "W", ns |-> ns], [kind |-> "V", ns |-> ns] }
AllSubs == UNION {colRefs(ns) : ns \in Namespaces}
\* (mutation: the collections are always opened under the default namespace)
CloudSubscribeDefaultOnly(m, d, cfg) ==
  IF m # "cloud" \/ d = NoDb THEN {}
  ELSE IF ~cfg.present THEN {}
  ELSE colRefs(DefaultOrg)
CloudSubscribe(m, d, cfg) ==
  IF m # "cloud" \/ d = NoDb THEN {}
  ELSE IF ~cfg.present THEN {}
  ELSE colRefs(OrDefault(cfg.orgKey))
\* (mutation: the effect returns no cleanup)
CloudCleanupKeeps(active) == active
\* the cleanup () => { unsubW(); unsubV(); }: what stays subscribed after it
CloudCleanup(active) == {}

\* ---- one render: commit the new state, then run the effects whose ----
\* ---- dependencies changed. raw: localStorage[CFG_KEY] after the handler ----
Render(m, wh, ve, d, ok, touched, raw, rwNow) ==
  LET depsChanged == << m, d, ok >> # << mode, db, orgKey >>
      kept == CloudCleanup(subs)
  IN /\ mode' = m
     /\ warehouses' = wh
     /\ vessels' = ve
     /\ db' = d
     /\ orgKey' = ok
     /\ lsData' = PersistEffect(m, wh, ve, touched \/ m # mode)
     /\ subs' = IF depsChanged
                THEN kept \cup CloudSubscribe(m, d, loadFirebaseConfig(gFirebase, raw))
                ELSE subs
     /\ entry' = IF mode = "demo" /\ m = "cloud"
                   THEN [phase |-> "shared", ls |-> lsData, wh |-> warehouses,
                         ve |-> vessels, rw |-> FALSE]
                 ELSE IF mode = "cloud" /\ m = "demo"
                   THEN [entry EXCEPT !.phase = "back"]
                 ELSE IF m = "cloud"
                   THEN [entry EXCEPT !.rw = entry.rw \/ rwNow]
                 ELSE NoEntry

\* a handler that sets no state of the App: no render, no effect
Cancelled(m, d, ok) ==
  IF << m, d, ok >> # << mode, db, orgKey >> THEN subs \ CloudCleanup(subs) ELSE {}
\* `last` after an event that is no gateway call and no snapshot
Effects(m, d, ok) ==
  [Idle EXCEPT !.wrote = Wrote(m, FALSE), !.cancelled = Cancelled(m, d, ok)]

\* a handler that sets no state of the App: no render, no effect
NoRender ==
  /\ UNCHANGED << mode, warehouses, vessels, db, orgKey, lsData, subs >>
  /\ entry' = IF entry.phase = "back" THEN NoEntry ELSE entry

\* ---- Boot: the mount effects and the render that follows them ----
\* (mutation: the catch branch leaves the collection empty)
LoadedWarehousesEmptyOnError ==
  IF lsData.kind = "null" THEN SAMPLE_DATA.warehouses
  ELSE IF ParseThrows(lsData) THEN << >>
  ELSE IF HasKey(JSONparse(lsData), "warehouses") THEN JSONparse(lsData).warehouses
  ELSE SAMPLE_DATA.warehouses
LoadedWarehouses ==
  IF lsData.kind = "null" THEN SAMPLE_DATA.warehouses
  ELSE IF ParseThrows(lsData) THEN SAMPLE_DATA.warehouses
  ELSE IF HasKey(JSONparse(lsData), "warehouses") THEN JSONparse(lsData).warehouses
  ELSE SAMPLE_DATA.warehouses
LoadedVessels ==
  IF lsData.kind = "null" THEN SAMPLE_DATA.vessels
  ELSE IF ParseThrows(lsData) THEN SAMPLE_DATA.vessels
  ELSE IF HasKey(JSONparse(lsData), "vessels") THEN JSONparse(lsData).vessels
  ELSE SAMPLE_DATA.vessels

Boot ==
  /\ pc = "init"
  /\ pc' = "run"
  /\ LET f == ensureFirebase(gFirebase, lsCfg)
         cfg == loadFirebaseConfig(gFirebase, lsCfg)
     IN /\ auth' = IF f THEN TheAuth ELSE NoAuth
        /\ listening' = f
        /\ Render("demo", LoadedWarehouses, LoadedVessels,
                  IF f THEN TheDb ELSE NoDb,
                  IF f THEN OrDefault(cfg.orgKey) ELSE orgKey,
                  TRUE, lsCfg, FALSE)
  /\ last' = [Idle EXCEPT !.wrote = Wrote("demo", TRUE)]
  /\ UNCHANGED << user, lsCfg, gFirebase, session, reported,
                  signInPending, remote, now, uuidCtr, docCtr, ops, gauge >>

\* ---- Session Monitor: the onAuthStateChanged callback ----
\* (mutation: the first report switches to cloud whatever it carries)
ModeForAnyReport(u) == "cloud"
ModeFor(u) == IF u # NoUser THEN "cloud" ELSE "demo"
AuthReport ==
  /\ pc = "run"
  /\ listening
  /\ reported # session
  /\ reported' = session
  /\ user' = session
  /\ Render(ModeFor(session), warehouses, vessels, db, orgKey, FALSE, lsCfg, FALSE)
  /\ last' = Effects(ModeFor(session), db, orgKey)
  /\ UNCHANGED << pc, auth, lsCfg, gFirebase, session, listening,
                  signInPending, remote, now, uuidCtr, docCtr, ops, gauge >>

\* ---- SettingsDialog ----
\* onOpenChange(false) of the App: re-read the configuration, refresh the handles
\* (mutation: setDb(f.db) forgotten when the dialog closes)
OnOpenChangeFalseKeepsDb(raw) ==
  LET f == ensureFirebase(gFirebase, raw)
      cfg == loadFirebaseConfig(gFirebase, raw)
  IN /\ auth' = IF f THEN TheAuth ELSE auth
     /\ Render(mode, warehouses, vessels, db,
               IF f THEN OrDefault(cfg.orgKey) ELSE orgKey,
               FALSE, raw, FALSE)
     /\ last' = Effects(mode, db, IF f THEN OrDefault(cfg.orgKey) ELSE orgKey)
OnOpenChangeFalse(raw) ==
  LET f == ensureFirebase(gFirebase, raw)
      cfg == loadFirebaseConfig(gFirebase, raw)
  IN /\ auth' = IF f THEN TheAuth ELSE auth
     /\ Render(mode, warehouses, vessels,
               IF f THEN TheDb ELSE db,
               IF f THEN OrDefault(cfg.orgKey) ELSE orgKey,
               FALSE, raw, FALSE)
     /\ last' = Effects(mode, IF f THEN TheDb ELSE db,
                        IF f THEN OrDefault(cfg.orgKey) ELSE orgKey)

\* filled: apiKey, authDomain and projectId are all non-empty in the inputs
save(filled, orgKeyInput) ==
  /\ pc = "run"
  /\ IF ~filled
     THEN /\ UNCHANGED << auth, lsCfg >>
          /\ NoRender
          /\ last' = Idle
     ELSE /\ lsCfg' = saveFirebaseConfig(orgKeyInput)
          /\ OnOpenChangeFalse(lsCfg')
  /\ UNCHANGED << pc, user,  gFirebase, session, listening, reported,
                  signInPending, remote, now, uuidCtr, docCtr, ops, gauge >>

CloseSettings ==
  /\ pc = "run"
  /\ OnOpenChangeFalse(lsCfg)
  /\ UNCHANGED << pc, user,  lsCfg, gFirebase, session, listening, reported,
                  signInPending, remote, now, uuidCtr, docCtr, ops, gauge >>

reset ==
  /\ pc = "run"
  /\ lsCfg' = clearFirebaseConfig
  /\ last' = Idle
  /\ NoRender
  /\ UNCHANGED << pc, user, auth, gFirebase, session, listening, reported,
                  signInPending, remote, now, uuidCtr, docCtr, ops, gauge >>

\* ---- sign-in / sign-out ----
\* onSignedIn / onSignedOut props of the App
onSignedIn(u) == [user |-> u, mode |-> "cloud"]
\* (mutation: setMode("demo") forgotten)
onSignedOutUserOnly == [user |-> NoUser, mode |-> mode]
onSignedOut == [user |-> NoUser, mode |-> "demo"]

\* doSignIn up to `await signInWithPopup`
doSignIn ==
  /\ pc = "run"
  /\ user = NoUser
  /\ ~signInPending
  /\ IF ~ensureFirebase(gFirebase, lsCfg)
     THEN /\ UNCHANGED signInPending
          /\ last' = Idle
     ELSE /\ signInPending' = TRUE
          /\ last' = Idle
  /\ NoRender
  /\ UNCHANGED << pc, user, auth, lsCfg, gFirebase, session,
                  listening, reported, remote, now, uuidCtr, docCtr, ops, gauge >>

\* signInWithPopup resolved: the continuation calls onSignedIn(res.user)
SignInResolved(u) ==
  /\ signInPending
  /\ signInPending' = FALSE
  /\ session' = u
  /\ user' = onSignedIn(u).user
  /\ Render(onSignedIn(u).mode, warehouses, vessels, db, orgKey, FALSE, lsCfg, FALSE)
  /\ last' = Effects(onSignedIn(u).mode, db, orgKey)
  /\ UNCHANGED << pc, auth, lsCfg, gFirebase, listening, reported,
                  remote, now, uuidCtr, docCtr, ops, gauge >>

\* signInWithPopup rejected (popup closed, provider error)
SignInRejected ==
  /\ signInPending
  /\ signInPending' = FALSE
  /\ last' = Idle
  /\ NoRender
  /\ UNCHANGED << pc, user, auth, lsCfg, gFirebase, session,
                  listening, reported, remote, now, uuidCtr, docCtr, ops, gauge >>

doSignOut ==
  /\ pc = "run"
  /\ user # NoUser
  /\ IF auth = NoAuth
     THEN /\ UNCHANGED << session, user >>
          /\ NoRender
          /\ last' = Idle
     ELSE /\ session' = NoUser
          /\ user' = onSignedOut.user
          /\ Render(onSignedOut.mode, warehouses, vessels, db, orgKey, FALSE, lsCfg, FALSE)
          /\ last' = Effects(onSignedOut.mode, db, orgKey)
  /\ UNCHANGED << pc, auth, lsCfg, gFirebase, listening, reported,
                  signInPending, remote, now, uuidCtr, docCtr, ops, gauge >>

\* ---- CRUD: dispatch to demo(localStorage) or cloud(Firestore) ----
GatewayFrame ==
  UNCHANGED << pc, user, auth, lsCfg, gFirebase, session, listening,
               reported, signInPending, gauge >>
\* new Date(): a reading not before the previous one
ClockReads(t) == t \in {now, now + 1} /\ now' = t
DemoCommit(wh, ve) == Render("demo", wh, ve, db, orgKey, TRUE, lsCfg, FALSE)
\* a remote call was issued; the handler itself sets no state
CloudIssued(wh, ve) == Render("cloud", wh, ve, db, orgKey, FALSE, lsCfg, TRUE)
\* `if (!db) return;`
NoDbReturn(name) ==
  /\ last' = Ev(name, "undefined", 0, 0, FALSE, "")
  /\ NoRender
  /\ UNCHANGED << remote, uuidCtr, docCtr >>
\* what the cloud branches leave in the in-memory collections: they set no state
\* (mutation: an optimistic insert before the remote call)
CloudBranchOptimistic(w) == << w >> \o warehouses
CloudBranchWarehouses(w) == warehouses
CloudBranchVessels(v) == vessels
\* what `await addDoc(...)` followed by the end of the function hands to the caller
CreateReturns(docId) == 0
WPath(ns) == remote[ns].W
VPath(ns) == remote[ns].V
DocIds(S) == {d.id : d \in S}

createWarehouse(name, t) ==
  /\ pc = "run" /\ ops < MaxOps /\ ops' = ops + 1
  /\ GatewayFrame
  /\ ClockReads(t)
  /\ IF mode = "demo"
     THEN /\ uuidCtr' = uuidCtr + 1
          /\ DemoCommit(<< WarehouseT(randomUUID(uuidCtr + 1), name, t) >> \o warehouses,
                        vessels)
          /\ last' = Ev("createWarehouse", "undefined", 0, 0, Wrote("demo", TRUE), "")
          /\ UNCHANGED << remote, docCtr >>
     ELSE IF db = NoDb THEN NoDbReturn("createWarehouse")
     ELSE LET doc == WarehouseT(ServerId(orgKey, docCtr + 1), name, t)
          IN /\ CloudIssued(CloudBranchWarehouses(doc), vessels)
             /\ UNCHANGED uuidCtr
             /\ \/ /\ remote' = [remote EXCEPT ![orgKey].W = @ \cup {doc}]
                   /\ docCtr' = docCtr + 1
                   /\ last' = Ev("createWarehouse", "undefined", CreateReturns(doc.id),
                                 doc.id, FALSE, orgKey)
                \/ /\ UNCHANGED << remote, docCtr >>
                   /\ last' = Ev("createWarehouse", "rejected", 0, 0, FALSE, orgKey)

updateWarehouse(id, name, t) ==
  /\ pc = "run" /\ ops < MaxOps /\ ops' = ops + 1
  /\ GatewayFrame
  /\ ClockReads(t)
  /\ UNCHANGED << uuidCtr, docCtr >>
  /\ LET w == WarehouseT(id, name, t)
     IN IF mode = "demo"
        THEN /\ DemoCommit(MapReplace(warehouses, id, w), vessels)
             /\ last' = Ev("updateWarehouse", "undefined", 0, 0, Wrote("demo", TRUE), "")
             /\ UNCHANGED remote
        ELSE IF db = NoDb THEN NoDbReturn("updateWarehouse")
        ELSE /\ CloudIssued(CloudBranchWarehouses(w), vessels)
             /\ \/ /\ id \in DocIds(WPath(orgKey))
                   /\ remote' = [remote EXCEPT ![orgKey].W =
                                   {d \in @ : d.id # id} \cup {w}]
                   /\ last' = Ev("updateWarehouse", "undefined", 0, 0, FALSE, orgKey)
                \/ /\ UNCHANGED remote
                   /\ last' = Ev("updateWarehouse", "rejected", 0, 0, FALSE, orgKey)

deleteWarehouse(id) ==
  /\ pc = "run" /\ ops < MaxOps /\ ops' = ops + 1
  /\ GatewayFrame
  /\ UNCHANGED now
  /\ UNCHANGED << uuidCtr, docCtr >>
  /\ IF mode = "demo"
     THEN /\ DemoCommit(FilterSeq(warehouses, id), vessels)
          /\ last' = Ev("deleteWarehouse", "undefined", 0, 0, Wrote("demo", TRUE), "")
          /\ UNCHANGED remote
     ELSE IF db = NoDb THEN NoDbReturn("deleteWarehouse")
     ELSE /\ CloudIssued(CloudBranchWarehouses(WarehouseT(id, 0, now)), vessels)
          /\ \/ /\ remote' = [remote EXCEPT ![orgKey].W = {d \in @ : d.id # id}]
                /\ last' = Ev("deleteWarehouse", "undefined", 0, 0, FALSE, orgKey)
             \/ /\ UNCHANGED remote
                /\ last' = Ev("deleteWarehouse", "rejected", 0, 0, FALSE, orgKey)

createVessel(name) ==
  /\ pc = "run" /\ ops < MaxOps /\ ops' = ops + 1
  /\ GatewayFrame
  /\ UNCHANGED now
  /\ IF mode = "demo"
     THEN /\ uuidCtr' = uuidCtr + 1
          /\ DemoCommit(warehouses,
                        << VesselT(randomUUID(uuidCtr + 1), name) >> \o vessels)
          /\ last' = Ev("createVessel", "undefined", 0, 0, Wrote("demo", TRUE), "")
          /\ UNCHANGED << remote, docCtr >>
     ELSE IF db = NoDb THEN NoDbReturn("createVessel")
     ELSE LET doc == VesselT(ServerId(orgKey, docCtr + 1), name)
          IN /\ CloudIssued(warehouses, CloudBranchVessels(doc))
             /\ UNCHANGED uuidCtr
             /\ \/ /\ remote' = [remote EXCEPT ![orgKey].V = @ \cup {doc}]
                   /\ docCtr' = docCtr + 1
                   /\ last' = Ev("createVessel", "undefined", CreateReturns(doc.id),
                                 doc.id, FALSE, orgKey)
                \/ /\ UNCHANGED << remote, docCtr >>
                   /\ last' = Ev("createVessel", "rejected", 0, 0, FALSE, orgKey)

updateVessel(id, name) ==
  /\ pc = "run" /\ ops < MaxOps /\ ops' = ops + 1
  /\ GatewayFrame
  /\ UNCHANGED now
  /\ UNCHANGED << uuidCtr, docCtr >>
  /\ LET v == VesselT(id, name)
     IN IF mode = "demo"
        THEN /\ DemoCommit(warehouses, MapReplace(vessels, id, v))
             /\ last' = Ev("updateVessel", "undefined", 0, 0, Wrote("demo", TRUE), "")
             /\ UNCHANGED remote
        ELSE IF db = NoDb THEN NoDbReturn("updateVessel")
        ELSE /\ CloudIssued(warehouses, CloudBranchVessels(v))
             /\ \/ /\ id \in DocIds(VPath(orgKey))
                   /\ remote' = [remote EXCEPT ![orgKey].V =
                                   {d \in @ : d.id # id} \cup {v}]
                   /\ last' = Ev("updateVessel", "undefined", 0, 0, FALSE, orgKey)
                \/ /\ UNCHANGED remote
                   /\ last' = Ev("updateVessel", "rejected", 0, 0, FALSE, orgKey)

deleteVessel(id) ==
  /\ pc = "run" /\ ops < MaxOps /\ ops' = ops + 1
  /\ GatewayFrame
  /\ UNCHANGED now
  /\ UNCHANGED << uuidCtr, docCtr >>
  /\ IF mode = "demo"
     THEN /\ DemoCommit(warehouses, FilterSeq(vessels, id))
          /\ last' = Ev("deleteVessel", "undefined", 0, 0, Wrote("demo", TRUE), "")
          /\ UNCHANGED remote
     ELSE IF db = NoDb THEN NoDbReturn("deleteVessel")
     ELSE /\ CloudIssued(warehouses, CloudBranchVessels(VesselT(id, 0)))
          /\ \/ /\ remote' = [remote EXCEPT ![orgKey].V = {d \in @ : d.id # id}]
                /\ last' = Ev("deleteVessel", "undefined", 0, 0, FALSE, orgKey)
             \/ /\ UNCHANGED remote
                /\ last' = Ev("deleteVessel", "rejected", 0, 0, FALSE, orgKey)

\* ---- onSnapshot callbacks: the whole ordered set replaces the collection ----
SnapshotFrame ==
  UNCHANGED << pc, user, auth, lsCfg, gFirebase, session, listening,
               reported, signInPending, remote, now, uuidCtr, docCtr, ops, gauge >>
\* (a push that carries what the collection already holds is left out)
SnapshotW(s) ==
  /\ s \in subs /\ s.kind = "W"
  /\ OrderByName(WPath(s.ns)) # warehouses
  /\ Render(mode, OrderByName(WPath(s.ns)), vessels, db, orgKey, TRUE, lsCfg, FALSE)
  /\ last' = [Idle EXCEPT !.wrote = Wrote(mode, TRUE)]
  /\ SnapshotFrame
SnapshotV(s) ==
  /\ s \in subs /\ s.kind = "V"
  /\ OrderByName(VPath(s.ns)) # vessels
  /\ Render(mode, warehouses, OrderByName(VPath(s.ns)), db, orgKey, TRUE, lsCfg, FALSE)
  /\ last' = [Idle EXCEPT !.wrote = Wrote(mode, TRUE)]
  /\ SnapshotFrame
\* a snapshot that was in flight for a listener unsubscribed in the last step
\* arrives: the SDK calls no callback
LateSnapshot(s) ==
  /\ pc = "run"
  /\ s \in last.cancelled
  /\ s \notin subs
  /\ last' = Ev("lateSnapshot", "none", 0, 0, FALSE, s.ns)
  /\ NoRender
  /\ SnapshotFrame

\* the backend ends a listener with an error (permission denied mid-session):
\* onSnapshot was given no error callback, so the SDK drops the listener and
\* no code of the App runs
SnapshotError(s) ==
  /\ s \in subs
  /\ subs' = subs \ {s}
  /\ UNCHANGED << mode, warehouses, vessels, db, orgKey, lsData >>
  /\ entry' = entry
  /\ last' = Ev("snapshotError", "none", 0, 0, FALSE, s.ns)
  /\ SnapshotFrame

\* ids a caller passes to update / delete: the first listed one and one that is
\* in no store
TargetIds(coll) == (IF coll = << >> THEN {} ELSE {Head(coll).id}) \cup {99}

Next ==
  \/ Boot
  \/ AuthReport
  \/ \E f \in BOOLEAN, o \in OrgInputs : save(f, o)
  \/ CloseSettings
  \/ reset
  \/ doSignIn
  \/ \E u \in Users : SignInResolved(u)
  \/ SignInRejected
  \/ doSignOut
  \/ \E n \in Names, t \in 0..MaxOps : createWarehouse(n, t)
  \/ \E id \in TargetIds(warehouses), n \in Names, t \in 0..MaxOps :
        updateWarehouse(id, n, t)
  \/ \E id \in TargetIds(warehouses) : deleteWarehouse(id)
  \/ \E n \in Names : createVessel(n)
  \/ \E id \in TargetIds(vessels), n \in Names : updateVessel(id, n)
  \/ \E id \in TargetIds(vessels) : deleteVessel(id)
  \/ \E s \in subs : SnapshotW(s)
  \/ \E s \in subs : SnapshotV(s)
  \/ \E s \in AllSubs : LateSnapshot(s)
  \/ \E s \in subs : s.kind \in FailingKinds /\ SnapshotError(s)

Spec == Init /\ [][Next]_vars

\* the backend keeps delivering the pushes of the listeners that are open
FairSpec ==
  /\ Spec
  /\ WF_vars(\E s \in AllSubs : SnapshotW(s))
  /\ WF_vars(\E s \in AllSubs : SnapshotV(s))

\* ---- the capacity bar of a warehouse card, on its own ----
appvars == << pc, mode, warehouses, vessels, user, orgKey, db, auth,
              lsData, lsCfg, gFirebase, session, listening, reported, signInPending,
              remote, subs, now, uuidCtr, docCtr, ops, last, entry >>
\* the tons a card may hold: every pair up to MaxTons, and Shed B of the samples
GaugeInputs ==
  [usedTons : 0..MaxTons, capacityTons : 0..MaxTons]
    \cup { [usedTons |-> 7800, capacityTons |-> 8000] }
\* <Progress value={pct(w.usedTons, w.capacityTons)} />
DrawGauge ==
  /\ ~gauge.drawn
  /\ gauge' = [gauge EXCEPT !.value = pct(gauge.usedTons, gauge.capacityTons),
                            !.width = Progress(pct(gauge.usedTons, gauge.capacityTons)),
                            !.drawn = TRUE]
  /\ UNCHANGED appvars
InitPct ==
  /\ InitApp
  /\ \E in \in GaugeInputs :
        gauge = [usedTons |-> in.usedTons, capacityTons |-> in.capacityTons,
                 value |-> 0, width |-> 0, drawn |-> FALSE]
NextPct == DrawGauge
SpecPct == InitPct /\ [][NextPct]_vars

\* ======================= properties =======================
GatewayOps == { "createWarehouse", "updateWarehouse", "deleteWarehouse",
                "createVessel", "updateVessel", "deleteVessel" }
MemoryIds == Ids(warehouses) \cup Ids(vessels)
CfgPresent == loadFirebaseConfig(gFirebase, lsCfg).present

\* C1: after Local -> Shared -> Local with no remote write issued, the persisted
\* local snapshot and the in-memory collections are what they were just before
\* the regime became Shared.
C1_LocalSetRestored ==
  (entry.phase = "back" /\ ~entry.rw)
    => (lsData = entry.ls /\ warehouses = entry.wh /\ vessels = entry.ve)

\* C2: in Local regime the object stored under LS_KEY is exactly the in-memory
\* collections, and loading it back (as the boot effect does) reproduces them.
C2_PersistedEqualsMemory ==
  (pc = "run" /\ mode = "demo")
    => /\ lsData = JSONstringify([warehouses |-> warehouses, vessels |-> vessels])
       /\ LoadedWarehouses = warehouses
       /\ LoadedVessels = vessels
C2_Witness ==
  /\ mode = "demo"
  /\ last.ev = "deleteVessel"
  /\ last.wrote
  /\ Len(vessels) = 2
  /\ ~ParseThrows(lsData) /\ JSONparse(lsData).vessels = vessels

C4_CreateReportsId ==
  (last.ev \in {"createWarehouse", "createVessel"} /\ last.newId # 0)
    => last.retId = last.newId

\* C5: the regime is Shared exactly when the observed identity is non-null.
C5_SharedIffIdentity == (mode = "cloud") <=> (user # NoUser)
\* signed in, then signed out again
C5_Witness ==
  /\ entry.phase = "back"
  /\ mode = "demo"
  /\ user = NoUser
  /\ entry.wh # << >>

\* C6: while no BackendConfig exists, no event moves the regime from Local to
\* Shared.
C6_NoConfigStaysLocal ==
  [][(~CfgPresent /\ mode = "demo") => mode' = "demo"]_vars

C8_NeverMixed ==
  ~ /\ \E i \in MemoryIds : Origin(i) = "local"
    /\ \E i \in MemoryIds : Origin(i) # "local"

\* C9: while the regime is Shared, every in-memory record comes from the remote
\* set of the current namespace.
C9_SharedViewIsCurrentNamespace ==
  mode = "cloud" => \A i \in MemoryIds : Origin(i) = orgKey

\* C10: in Shared regime a gateway call changes neither the in-memory
\* collections nor LS_KEY, whether the remote call succeeds or is rejected, and
\* the collections change only in a step that delivers a snapshot.
C10_SharedWritesLeaveView ==
  [][mode = "cloud" =>
       /\ last'.ev \in GatewayOps => UNCHANGED << warehouses, vessels, lsData >>
       /\ << warehouses, vessels >>' # << warehouses, vessels >>
            => \E s \in subs : SnapshotW(s) \/ SnapshotV(s)]_vars
\* a remote call was rejected in Shared regime
C10_Witness ==
  /\ mode = "cloud"
  /\ last.ev = "createWarehouse"
  /\ last.ret = "rejected"
  /\ subs # {}

\* what the boot effect has to put in memory for a collection: the stored
\* array when LS_KEY parses and holds it, else the sample array
StoredOrSample(key) ==
  IF lsData.kind = "json" /\ key \in DOMAIN lsData.val
  THEN lsData.val[key] ELSE SAMPLE_DATA[key]

\* C11: the regime is Local before and right after startup whether or not a
\* configuration exists; the boot step loads both collections from LS_KEY (or
\* the samples) while no auth report has been processed; and the regime leaves
\* Local only in a step that delivers a non-null identity.
C11_BootsLocal ==
  /\ [](pc = "init" => (mode = "demo" /\ user = NoUser /\ reported = "unset"))
  /\ [][ /\ Boot => /\ mode' = "demo"
                    /\ reported' = "unset"
                    /\ warehouses' = StoredOrSample("warehouses")
                    /\ vessels' = StoredOrSample("vessels")
         /\ (mode = "demo" /\ mode' = "cloud")
              => (pc = "run" /\ user' # NoUser /\ user' = session') ]_vars
\* booted with a configuration: the monitor is registered, has reported nothing
\* yet, the provider holds a session, and the stored warehouse is in memory
C11_Witness ==
  /\ pc = "run"
  /\ CfgPresent
  /\ listening
  /\ reported = "unset"
  /\ session # NoUser
  /\ mode = "demo"
  /\ Ids(warehouses) = {11}

\* ids a caller may pass that are not in the collection
AbsentIds(coll) == TargetIds(coll) \ Ids(coll)

\* C12: in Local regime a delete of an id that is not in the collection
\* resolves without error and leaves both collections (records, order, fields,
\* lastUpdate) and the persisted snapshot as they were.
C12_LocalDeleteAbsentNoOp ==
  [][ mode = "demo" =>
        /\ \A id \in AbsentIds(warehouses) : deleteWarehouse(id) =>
              /\ UNCHANGED << warehouses, vessels, lsData, now >>
              /\ last'.ret = "undefined"
        /\ \A id \in AbsentIds(vessels) : deleteVessel(id) =>
              /\ UNCHANGED << warehouses, vessels, lsData, now >>
              /\ last'.ret = "undefined" ]_vars
\* the only gateway call so far was a Local deleteWarehouse and all three
\* sample warehouses are still there: its id was in no collection
C12_Witness ==
  /\ mode = "demo"
  /\ ops = 1
  /\ last.ev = "deleteWarehouse"
  /\ last.ret = "undefined"
  /\ warehouses = SAMPLE_DATA.warehouses
  /\ vessels = SAMPLE_DATA.vessels

\* C13: when an established subscription fails, the regime goes back to Local.
C13_SubscriptionFailureGoesLocal == last.ev = "snapshotError" => mode = "demo"

\* C14: startup always completes; with LS_KEY missing or unparsable both
\* collections become the samples (3 warehouses, 3 vessels); with a stored
\* object lacking a collection that collection becomes its sample and the other
\* is the stored one; a missing or unparsable CFG_KEY (and no injected
\* configuration) is no configuration: no handles, no monitor.
C14_LoadFailuresFallBack ==
  /\ [](pc = "init" => ENABLED Boot)
  /\ [][Boot =>
         /\ pc' = "run"
         /\ lsData.kind \in {"null", "garbage"} =>
              /\ warehouses' = SAMPLE_DATA.warehouses /\ Len(warehouses') = 3
              /\ vessels' = SAMPLE_DATA.vessels /\ Len(vessels') = 3
         /\ (lsData.kind = "json" /\ "vessels" \notin DOMAIN lsData.val) =>
              /\ vessels' = SAMPLE_DATA.vessels
              /\ warehouses' = lsData.val.warehouses
         /\ (~gFirebase.present /\ lsCfg.kind \in {"null", "garbage"}) =>
              /\ ~loadFirebaseConfig(gFirebase, lsCfg).present
              /\ db' = NoDb /\ auth' = NoAuth /\ ~listening' /\ subs' = {}
              /\ orgKey' = DefaultOrg ]_vars
\* booted from a missing LS_KEY and an unparsable CFG_KEY
C14_Witness ==
  /\ pc = "run"
  /\ ops = 0
  /\ lsCfg = Garbage
  /\ warehouses = SAMPLE_DATA.warehouses
  /\ vessels = SAMPLE_DATA.vessels
  /\ db = NoDb
  /\ ~listening
  /\ mode = "demo"

\* C15: for every warehouse id, the lastUpdate held for it in memory and in the
\* remote store never decreases from one state to the next.
C15_LastUpdateMonotone ==
  [][ /\ \A i \in 1..Len(warehouses), j \in 1..Len(warehouses') :
            warehouses[i].id = warehouses'[j].id
              => warehouses'[j].lastUpdate >= warehouses[i].lastUpdate
      /\ \A ns \in Namespaces : \A d \in WPath(ns), e \in WPath(ns)' :
            d.id = e.id => e.lastUpdate >= d.lastUpdate ]_vars

\* round(100 * used / cap) in exact arithmetic, halves upwards
ExactPercent(used, cap) == (200 * used + cap) \div (2 * cap)

\* C16: the percentage drawn for a warehouse is in 0..100 for all tons >= 0, it
\* is the rounded value of 100 * used / capacity whenever that is at most 100,
\* and it is 98 for 7800 of 8000.
C16_PctClampedAndRounded ==
  gauge.drawn =>
     /\ gauge.value \in 0..100
     /\ gauge.width \in 0..100
     /\ (gauge.capacityTons > 0 /\ gauge.usedTons <= gauge.capacityTons)
          => gauge.value = ExactPercent(gauge.usedTons, gauge.capacityTons)
     /\ (gauge.usedTons = 7800 /\ gauge.capacityTons = 8000) => gauge.value = 98

\* C17: the regime is Shared only while a BackendConfig is present.
C17_SharedImpliesConfig == mode = "cloud" => CfgPresent

\* the in-memory collections are the remote set of namespace ns, in query order
ViewIsRemote(ns) ==
  /\ warehouses = OrderByName(WPath(ns))
  /\ vessels = OrderByName(VPath(ns))

\* C18: every step that makes the regime Shared opens the two subscriptions of
\* the current namespace, and if the regime stays Shared on one namespace then,
\* with pushes delivered fairly, the in-memory collections end up equal to the
\* remote set of that namespace.
C18_SharedEventuallySynced ==
  /\ [][(mode = "demo" /\ mode' = "cloud") => subs' = colRefs(orgKey')]_vars
  /\ \A ns \in Namespaces :
        <>[](mode = "cloud" /\ orgKey = ns) => <>[]ViewIsRemote(ns)

\* C19: in Shared regime every active subscription listens on the namespace of
\* the orgKey state, which is the namespace a gateway call builds its paths on.
C19_WritePathIsSubscribedNamespace ==
  mode = "cloud" =>
     /\ \A s \in subs : s.ns = orgKey
     /\ (last.ev \in GatewayOps /\ last.ns # "") => \A s \in subs : s.ns = last.ns
\* the namespace was changed to acme while Shared and a document was then
\* created: its path and both subscriptions are on acme
C19_Witness ==
  /\ mode = "cloud"
  /\ orgKey = "acme"
  /\ last.ev = "createVessel"
  /\ last.ns = "acme"
  /\ last.newId # 0
  /\ subs = colRefs("acme")
  /\ lsCfg = saveFirebaseConfig("acme")

\* C20: in Shared regime the Firestore handle is set, and no gateway call made
\* in Shared regime returns at `if (!db) return` without a remote call.
C20_SharedHasDb ==
  mode = "cloud" =>
     /\ db = TheDb
     /\ last.ev \in GatewayOps => last.ns = orgKey
\* the page booted without a configuration (no monitor); one was saved in
\* Settings, the user signed in, and a gateway call reached the remote store
C20_Witness ==
  /\ mode = "cloud"
  /\ ~listening
  /\ db = TheDb
  /\ last.ev = "deleteWarehouse"
  /\ last.ret = "undefined"
  /\ last.ns = "acme"

====
